---- MODULE Spec2Model ----
(***************************************************************************)
(* Model of the AI Card Explainer add-on (src/__init__.py,                 *)
(* src/config_gui.py).                                                     *)
(*                                                                         *)
(* Text is modelled as a sequence of tokens:                               *)
(*   "ws"  one whitespace character                                        *)
(*   "q"   text of an input field                                          *)
(*   "x"   text typed by the user into the explanation field               *)
(*   "h"   text returned by the provider                                   *)
(*   "s"   text of a user-defined separator                                *)
(*   "HR"  the built-in separator "\n<hr>\n"                               *)
(*   "F"   a markdown fence line (```, ```html) with its line break        *)
(*   "Fj"  an opening fence line naming a non-HTML language (```json)      *)
(* The two providers differ only in the URL and the shape of the request;  *)
(* the config of the model holds whether the key of the selected one is    *)
(* set.                                                                    *)
(* Handlers and completion callbacks run on the GUI thread and are one     *)
(* action each.  The background worker reads and writes nothing but the    *)
(* locals of its own run (jobs, cfg, results), so its calls commute with   *)
(* every other step and the whole worker is one action.                    *)
(***************************************************************************)
EXTENDS Integers, Sequences, FiniteSets, TLC

\* ---------------------------------------------------------------- bounds
NumNotes == 2
MaxReviewerRuns == 1
MaxBatchRuns == 1
MaxEdits == 1

Nids == 1..NumNotes
None == "None"
NoField == <<"KeyError">>
NoMsg == <<>>

VARIABLES notes, card, cfg, runs, uncaught, edits

vars == <<notes, card, cfg, runs, uncaught, edits>>

\* ------------------------------------------------------- text primitives
RECURSIVE LStrip(_)
LStrip(s) == IF s # <<>> /\ Head(s) = "ws" THEN LStrip(Tail(s)) ELSE s

RECURSIVE RStrip(_)
RStrip(s) ==
    IF s # <<>> /\ s[Len(s)] = "ws" THEN RStrip(SubSeq(s, 1, Len(s) - 1)) ELSE s

\* str.strip()
Strip(s) == RStrip(LStrip(s))

\* ------------------------------------------------------------ the config
Behaviors == {"skip", "overwrite", "append"}
Separators == {<<>>, <<"s">>}
DefaultSep == <<"HR">>
InputFields == <<"Front", "Back">>
ExplanationField == "Explanation"

\* api_key: whether a key of the selected provider is set, in the config or
\* in the environment variable.
Configs ==
    [api_key : BOOLEAN,
     behavior : Behaviors, sep : Separators, max_notes : 1..NumNotes]

\* ------------------------------------------------------------- the notes
\* A note of the collection: whether it still exists, and its fields.  A
\* field the note type does not have holds NoField; reading it is a KeyError.
FieldNames == {"Front", "Explanation"}
UserTexts == {<<>>, <<"ws">>, <<"ws", "x">>}
FrontTexts == {<<>>, <<"q">>}

\* A deleted note; get_note does not find it.
Deleted == [exists |-> FALSE, flds |-> [f \in FieldNames |-> NoField]]

HasField(note, f) == f \in DOMAIN note.flds /\ note.flds[f] # NoField

\* ------------------------------------------------ _prepare_note_job_from_note
\* field_parts: the input fields of the note that exist and are not blank.
RECURSIVE FieldParts(_, _)
FieldParts(note, fs) ==
    IF fs = <<>> THEN <<>>
    ELSE LET f == Head(fs)
             rest == FieldParts(note, Tail(fs))
         IN IF HasField(note, f) /\ Strip(note.flds[f]) # <<>>
            THEN <<f>> \o rest
            ELSE rest

_prepare_note_job_from_note(nid, note, c) ==
    LET parts == FieldParts(note, InputFields)
    IN IF parts = <<>>
       THEN [job |-> None, err |-> "All input fields are empty or missing."]
       ELSE IF ~HasField(note, ExplanationField)
       THEN [job |-> None, err |-> "Explanation field does not exist."]
       ELSE IF Strip(note.flds[ExplanationField]) # <<>> /\ c.behavior = "skip"
       THEN [job |-> None, err |-> "Explanation already exists."]
       ELSE [job |-> [nid |-> nid, e_field |-> ExplanationField,
                      fields_text |-> parts, behavior |-> c.behavior,
                      sep |-> c.sep],
             err |-> None]

\* ------------------------------------------------------ _strip_markdown_fences
_strip_markdown_fences(s) ==
    LET t == Strip(s)
    IN IF Len(t) >= 2 /\ t[1] \in {"F", "Fj"} /\ t[Len(t)] = "F"
       THEN IF t[1] = "Fj" THEN t ELSE Strip(SubSeq(t, 2, Len(t) - 1))
       ELSE t

\* --------------------------------------------------------------- _generate_html
\* What the provider answers to one POST: a body, or a failure of the request.
HttpError == <<"HTTPError">>
Responses ==
    {<<"ws", "h">>, <<"F", "ws", "F">>, HttpError}

\* _generate_html with a second POST after a failed one.
_generate_html_retry(c, resp) ==
    IF ~c.api_key
    THEN [html |-> <<>>, err |-> "API key not set.", posts |-> 0]
    ELSE IF resp = HttpError
    THEN [html |-> <<>>, err |-> "API error", posts |-> 2]
    ELSE [html |-> _strip_markdown_fences(resp), err |-> None, posts |-> 1]

\* posts: the number of requests.post calls made (_call_openai or
\* _call_gemini, whichever the provider selects, makes one).
_generate_html(c, resp) ==
    IF ~c.api_key
    THEN [html |-> <<>>, err |-> "API key not set.", posts |-> 0]
    ELSE IF resp = HttpError
    THEN [html |-> <<>>, err |-> "API error", posts |-> 1]
    ELSE [html |-> _strip_markdown_fences(resp), err |-> None,
          posts |-> 1]

\* ---------------------------------------------------------- _apply_html_to_note
\* _apply_html_to_note writing to the note of the card the reviewer shows now.
_apply_html_to_note_current_card(ns, nid, e_field, html, behavior, sep) ==
    LET w == IF card # 0 THEN card ELSE nid
    IN IF ~ns[w].exists
       THEN [ok |-> FALSE, err |-> "NotFoundError", raised |-> TRUE, notes |-> ns]
       ELSE IF ~HasField(ns[w], e_field)
       THEN [ok |-> FALSE, err |-> "KeyError", raised |-> TRUE, notes |-> ns]
       ELSE LET existing_raw == ns[w].flds[e_field]
                existing == Strip(existing_raw)
            IN IF existing # <<>> /\ behavior = "skip"
            THEN [ok |-> FALSE, err |-> "Explanation already exists.",
                  raised |-> FALSE, notes |-> ns]
            ELSE IF existing # <<>> /\ behavior = "append"
            THEN [ok |-> TRUE, err |-> None, raised |-> FALSE,
                  notes |-> [ns EXCEPT ![w].flds[e_field] =
                      existing_raw \o (IF sep # <<>> THEN sep ELSE DefaultSep)
                                   \o html]]
            ELSE [ok |-> TRUE, err |-> None, raised |-> FALSE,
                  notes |-> [ns EXCEPT ![w].flds[e_field] = html]]

\* _apply_html_to_note relying on the check made when the job was prepared.
_apply_html_to_note_no_recheck(ns, nid, e_field, html, behavior, sep) ==
    LET w == nid
    IN IF ~ns[w].exists
       THEN [ok |-> FALSE, err |-> "NotFoundError", raised |-> TRUE, notes |-> ns]
       ELSE IF ~HasField(ns[w], e_field)
       THEN [ok |-> FALSE, err |-> "KeyError", raised |-> TRUE, notes |-> ns]
       ELSE LET existing_raw == ns[w].flds[e_field]
                existing == Strip(existing_raw)
            IN IF existing # <<>> /\ behavior = "append"
            THEN [ok |-> TRUE, err |-> None, raised |-> FALSE,
                  notes |-> [ns EXCEPT ![w].flds[e_field] =
                      existing_raw \o (IF sep # <<>> THEN sep ELSE DefaultSep)
                                   \o html]]
            ELSE [ok |-> TRUE, err |-> None, raised |-> FALSE,
                  notes |-> [ns EXCEPT ![w].flds[e_field] = html]]

\* _apply_html_to_note appending to the stripped content.
_apply_html_to_note_stripped(ns, nid, e_field, html, behavior, sep) ==
    LET w == nid
    IN IF ~ns[w].exists
       THEN [ok |-> FALSE, err |-> "NotFoundError", raised |-> TRUE, notes |-> ns]
       ELSE IF ~HasField(ns[w], e_field)
       THEN [ok |-> FALSE, err |-> "KeyError", raised |-> TRUE, notes |-> ns]
       ELSE LET existing_raw == ns[w].flds[e_field]
                existing == Strip(existing_raw)
            IN IF existing # <<>> /\ behavior = "skip"
            THEN [ok |-> FALSE, err |-> "Explanation already exists.",
                  raised |-> FALSE, notes |-> ns]
            ELSE IF existing # <<>> /\ behavior = "append"
            THEN [ok |-> TRUE, err |-> None, raised |-> FALSE,
                  notes |-> [ns EXCEPT ![w].flds[e_field] =
                      existing \o (IF sep # <<>> THEN sep ELSE DefaultSep)
                                   \o html]]
            ELSE [ok |-> TRUE, err |-> None, raised |-> FALSE,
                  notes |-> [ns EXCEPT ![w].flds[e_field] = html]]

\* _apply_html_to_note testing the raw content for emptiness before appending.
_apply_html_to_note_raw_test(ns, nid, e_field, html, behavior, sep) ==
    LET w == nid
    IN IF ~ns[w].exists
       THEN [ok |-> FALSE, err |-> "NotFoundError", raised |-> TRUE, notes |-> ns]
       ELSE IF ~HasField(ns[w], e_field)
       THEN [ok |-> FALSE, err |-> "KeyError", raised |-> TRUE, notes |-> ns]
       ELSE LET existing_raw == ns[w].flds[e_field]
                existing == Strip(existing_raw)
            IN IF existing # <<>> /\ behavior = "skip"
            THEN [ok |-> FALSE, err |-> "Explanation already exists.",
                  raised |-> FALSE, notes |-> ns]
            ELSE IF existing_raw # <<>> /\ behavior = "append"
            THEN [ok |-> TRUE, err |-> None, raised |-> FALSE,
                  notes |-> [ns EXCEPT ![w].flds[e_field] =
                      existing_raw \o (IF sep # <<>> THEN sep ELSE DefaultSep)
                                   \o html]]
            ELSE [ok |-> TRUE, err |-> None, raised |-> FALSE,
                  notes |-> [ns EXCEPT ![w].flds[e_field] = html]]

\* raised: get_note or the field read raised; nothing is written then.
_apply_html_to_note(ns, nid, e_field, html, behavior, sep) ==
    IF ~ns[nid].exists
    THEN [ok |-> FALSE, err |-> "NotFoundError", raised |-> TRUE, notes |-> ns]
    ELSE IF ~HasField(ns[nid], e_field)
    THEN [ok |-> FALSE, err |-> "KeyError", raised |-> TRUE, notes |-> ns]
    ELSE LET existing_raw == ns[nid].flds[e_field]
             existing == Strip(existing_raw)
         IN IF existing # <<>> /\ behavior = "skip"
            THEN [ok |-> FALSE, err |-> "Explanation already exists.",
                  raised |-> FALSE, notes |-> ns]
            ELSE IF existing # <<>> /\ behavior = "append"
            THEN [ok |-> TRUE, err |-> None, raised |-> FALSE,
                  notes |-> [ns EXCEPT ![nid].flds[e_field] =
                      existing_raw \o (IF sep # <<>> THEN sep ELSE DefaultSep)
                                   \o html]]
            ELSE [ok |-> TRUE, err |-> None, raised |-> FALSE,
                  notes |-> [ns EXCEPT ![nid].flds[e_field] = html]]

\* -------------------------------------------------------------------- runs
\* One entry per call of a handler.  While the run is in flight it holds the
\* locals of the handler that its closures use (cfg, nids, target, jobs,
\* pre_skipped) and the value of the worker's future (results).  When the
\* handler or its completion callback has returned, the locals are gone and
\* the entry keeps what the user saw: the tooltip or dialog (msg), the
\* counters of on_done (okc, sk, er), whether the reviewer's card was drawn
\* again (redrawn) and whether an exception left the handler or the callback
\* (raised).
NewRun(kind, c) ==
    [kind |-> kind, cfg |-> c, nids |-> <<>>, target |-> <<>>,
     jobs |-> <<>>, pre_skipped |-> 0, results |-> <<>>,
     pc |-> "finished", msg |-> NoMsg, raised |-> FALSE,
     okc |-> 0, sk |-> 0, er |-> 0, redrawn |-> FALSE]

NumRuns(kind) == Cardinality({i \in DOMAIN runs : runs[i].kind = kind})

Init ==
    /\ notes = [n \in Nids |->
                  [exists |-> TRUE,
                   flds |-> [f \in FieldNames |->
                               IF f = "Front" THEN <<"q">> ELSE <<>>]]]
    /\ card = 0
    /\ cfg \in Configs
    /\ runs = <<>>
    /\ uncaught = 0
    /\ edits = 0

\* ------------------------------------------------- _generate_for_current_card
GenerateNoCard ==
    /\ NumRuns("reviewer") < MaxReviewerRuns
    /\ card = 0
    /\ runs' = Append(runs, [NewRun("reviewer", cfg) EXCEPT
                               !.msg = <<"tooltip", "No current card.">>])
    /\ UNCHANGED <<notes, card, cfg, uncaught, edits>>

GenerateSkipped ==
    /\ NumRuns("reviewer") < MaxReviewerRuns
    /\ card # 0
    /\ LET p == _prepare_note_job_from_note(card, notes[card], cfg)
       IN /\ p.err # None
          /\ runs' = Append(runs, [NewRun("reviewer", cfg) EXCEPT
                                     !.msg = <<"tooltip", "Skipped">>])
    /\ UNCHANGED <<notes, card, cfg, uncaught, edits>>

GenerateStart ==
    /\ NumRuns("reviewer") < MaxReviewerRuns
    /\ card # 0
    /\ LET p == _prepare_note_job_from_note(card, notes[card], cfg)
       IN /\ p.err = None
          /\ runs' = Append(runs, [NewRun("reviewer", cfg) EXCEPT
                                     !.jobs = <<p.job>>,
                                     !.pc = "worker"])
    /\ UNCHANGED <<notes, card, cfg, uncaught, edits>>

\* ------------------------------------------------ the background worker
\* worker of either handler: one _generate_html call per job, in order.
\* resps[i] is what the provider answers to the call for job i; it is not
\* read when no API key is set.
WorkerResults(c, jobs, resps) ==
    [i \in 1..Len(jobs) |-> _generate_html(c, resps[i])]

Worker(r, resps) ==
    /\ r \in 1..Len(runs)
    /\ runs[r].pc = "worker"
    /\ resps \in [1..Len(runs[r].jobs) -> Responses]
    /\ runs' = [runs EXCEPT
          ![r].results = WorkerResults(runs[r].cfg, runs[r].jobs, resps),
          ![r].pc = "on_done"]
    /\ UNCHANGED <<notes, card, cfg, uncaught, edits>>

\* -------------------------------------- _generate_for_current_card.on_done
\* The card is drawn again when the reviewer still shows the card the job was
\* prepared from (a card is identified with its note here).
ReviewerOnDone(r) ==
    /\ r \in 1..Len(runs)
    /\ runs[r].kind = "reviewer"
    /\ runs[r].pc = "on_done"
    /\ LET job == runs[r].jobs[1]
           res == runs[r].results[1]
       IN IF res.html # <<>>
          THEN LET a == _apply_html_to_note(notes, job.nid, job.e_field,
                                            res.html, job.behavior, job.sep)
               IN /\ notes' = a.notes
                  /\ uncaught' = IF a.raised THEN uncaught + 1 ELSE uncaught
                  /\ runs' = [runs EXCEPT ![r] =
                       [NewRun("reviewer", runs[r].cfg) EXCEPT
                          !.raised = a.raised,
                          !.okc = IF a.ok THEN 1 ELSE 0,
                          !.sk = IF ~a.ok /\ ~a.raised THEN 1 ELSE 0,
                          !.redrawn = a.ok /\ card = job.nid,
                          !.msg = IF a.raised THEN NoMsg
                                  ELSE IF a.ok
                                  THEN <<"tooltip", "AI explanation generated.">>
                                  ELSE <<"tooltip", "Skipped">>]]
          ELSE /\ runs' = [runs EXCEPT ![r] =
                       [NewRun("reviewer", runs[r].cfg) EXCEPT
                          !.er = 1,
                          !.msg = <<"tooltip", "Skipped">>]]
               /\ UNCHANGED <<notes, uncaught>>
    /\ UNCHANGED <<card, cfg, edits>>

\* ---------------------------------------------- _on_tools_generate_with_search
\* find_notes: the ids of existing notes, each once, in the order of the search.
SearchResults ==
    {s \in UNION {[1..k -> Nids] : k \in 0..NumNotes} :
        /\ \A i \in DOMAIN s : notes[s[i]].exists
        /\ \A i, j \in DOMAIN s : i # j => s[i] # s[j]}

\* The whole search result, whatever max_notes is.
Target_all(nids, max_notes) == nids

\* nids[:max_notes], for max_notes >= 0
Target(nids, max_notes) ==
    SubSeq(nids, 1, IF max_notes < Len(nids) THEN max_notes ELSE Len(nids))

\* the loop over target: the jobs prepared and the number of notes skipped
RECURSIVE PrepareJobs(_, _, _)
PrepareJobs(target, ns, c) ==
    IF target = <<>> THEN [jobs |-> <<>>, pre_skipped |-> 0]
    ELSE LET p == _prepare_note_job_from_note(Head(target), ns[Head(target)], c)
             rest == PrepareJobs(Tail(target), ns, c)
         IN IF p.err # None
            THEN [jobs |-> rest.jobs, pre_skipped |-> rest.pre_skipped + 1]
            ELSE [jobs |-> <<p.job>> \o rest.jobs,
                  pre_skipped |-> rest.pre_skipped]

\* The dialog was cancelled or the query is blank.
SearchCancelled ==
    /\ NumRuns("batch") < MaxBatchRuns
    /\ runs' = Append(runs, NewRun("batch", cfg))
    /\ UNCHANGED <<notes, card, cfg, uncaught, edits>>

SearchNoMatch ==
    /\ NumRuns("batch") < MaxBatchRuns
    /\ runs' = Append(runs, [NewRun("batch", cfg) EXCEPT
                               !.msg = <<"showInfo", "No matching notes.">>])
    /\ UNCHANGED <<notes, card, cfg, uncaught, edits>>

SearchStart(nids) ==
    /\ NumRuns("batch") < MaxBatchRuns
    /\ nids \in SearchResults
    /\ nids # <<>>
    /\ LET target == Target(nids, cfg.max_notes)
           pj == PrepareJobs(target, notes, cfg)
       IN runs' = Append(runs, [NewRun("batch", cfg) EXCEPT
                     !.nids = nids,
                     !.target = target,
                     !.jobs = pj.jobs,
                     !.pre_skipped = pj.pre_skipped,
                     !.pc = "worker"])
    /\ UNCHANGED <<notes, card, cfg, uncaught, edits>>

\* ---------------------------------- _on_tools_generate_with_search.on_done
\* The loop over the results, from result i on.  An exception raised by
\* _apply_html_to_note ends the loop; what was written before it stays.
RECURSIVE ApplyAll(_, _, _, _)
ApplyAll(ns, jobs, results, i) ==
    IF i > Len(results)
    THEN [notes |-> ns, okc |-> 0, sk |-> 0, er |-> 0, raised |-> FALSE]
    ELSE IF results[i].html # <<>>
    THEN LET a == _apply_html_to_note(ns, jobs[i].nid, jobs[i].e_field,
                                      results[i].html, jobs[i].behavior,
                                      jobs[i].sep)
         IN IF a.raised
            THEN [notes |-> ns, okc |-> 0, sk |-> 0, er |-> 0, raised |-> TRUE]
            ELSE LET rest == ApplyAll(a.notes, jobs, results, i + 1)
                 IN IF a.ok THEN [rest EXCEPT !.okc = @ + 1]
                            ELSE [rest EXCEPT !.sk = @ + 1]
    ELSE LET rest == ApplyAll(ns, jobs, results, i + 1)
         IN [rest EXCEPT !.er = @ + 1]

BatchOnDone(r) ==
    /\ r \in 1..Len(runs)
    /\ runs[r].kind = "batch"
    /\ runs[r].pc = "on_done"
    /\ LET a == ApplyAll(notes, runs[r].jobs, runs[r].results, 1)
       IN /\ notes' = a.notes
          /\ uncaught' = IF a.raised THEN uncaught + 1 ELSE uncaught
          /\ runs' = [runs EXCEPT ![r] =
               [NewRun("batch", runs[r].cfg) EXCEPT
                  !.raised = a.raised,
                  !.okc = a.okc,
                  !.sk = IF a.raised THEN a.sk ELSE a.sk + runs[r].pre_skipped,
                  !.er = a.er,
                  !.msg = IF a.raised THEN NoMsg
                          ELSE <<"showInfo", "AI explanation batch finished.">>]]
    /\ UNCHANGED <<card, cfg, edits>>

\* --------------------------------------------------------------- the host
\* The reviewer shows another card, or none.
ShowCard(n) ==
    /\ n \in Nids \cup {0}
    /\ n # card
    /\ n # 0 => notes[n].exists
    /\ card' = n
    /\ UNCHANGED <<notes, cfg, runs, uncaught, edits>>

\* A field of a note is edited outside the add-on.
EditNote(n, f, v) ==
    /\ n \in Nids
    /\ edits < MaxEdits
    /\ notes[n].exists
    /\ HasField(notes[n], f)
    /\ v \in (IF f = "Front" THEN FrontTexts ELSE UserTexts)
    /\ v # notes[n].flds[f]
    /\ notes' = [notes EXCEPT ![n].flds[f] = v]
    /\ edits' = edits + 1
    /\ UNCHANGED <<card, cfg, runs, uncaught>>

\* The note is moved to a note type without the explanation field.
ChangeNotetype(n) ==
    /\ n \in Nids
    /\ edits < MaxEdits
    /\ notes[n].exists
    /\ HasField(notes[n], ExplanationField)
    /\ notes' = [notes EXCEPT ![n].flds[ExplanationField] = NoField]
    /\ edits' = edits + 1
    /\ UNCHANGED <<card, cfg, runs, uncaught>>

\* The note is deleted; the reviewer no longer shows its card.
DeleteNote(n) ==
    /\ n \in Nids
    /\ edits < MaxEdits
    /\ notes[n].exists
    /\ notes' = [notes EXCEPT ![n] = Deleted]
    /\ card' = IF card = n THEN 0 ELSE card
    /\ edits' = edits + 1
    /\ UNCHANGED <<cfg, runs, uncaught>>

\* ExplainerConfigDialog._write_config: the settings are saved.  Runs in
\* flight keep the config they read when their handler ran.
SaveConfig(c) ==
    /\ c \in Configs
    /\ edits < MaxEdits
    /\ Cardinality({k \in DOMAIN cfg : c[k] # cfg[k]}) = 1
    /\ cfg' = c
    /\ edits' = edits + 1
    /\ UNCHANGED <<notes, card, runs, uncaught>>

Next ==
    \/ GenerateNoCard
    \/ GenerateSkipped
    \/ GenerateStart
    \/ \E r \in 1..Len(runs) :
          \E resps \in [1..Len(runs[r].jobs) -> Responses] : Worker(r, resps)
    \/ \E r \in 1..Len(runs) : ReviewerOnDone(r)
    \/ SearchCancelled
    \/ SearchNoMatch
    \/ \E nids \in SearchResults : SearchStart(nids)
    \/ \E r \in 1..Len(runs) : BatchOnDone(r)
    \/ \E n \in Nids \cup {0} : ShowCard(n)
    \/ \E n \in Nids, f \in FieldNames, v \in UserTexts \cup FrontTexts :
          EditNote(n, f, v)
    \/ \E n \in Nids : ChangeNotetype(n)
    \/ \E n \in Nids : DeleteNote(n)
    \/ \E c \in Configs : SaveConfig(c)

Spec == Init /\ [][Next]_vars

\* ================================================================ claims
\* The completion callback of run r runs in this step.
OnDoneStep(r) ==
    /\ r \in DOMAIN runs
    /\ runs[r].pc = "on_done"
    /\ runs'[r].pc = "finished"

\* The handler of a new run runs in this step.
StartStep == Len(runs') = Len(runs) + 1

\* In the callback of run r, result i reaches _apply_html_to_note and the
\* call does not raise: the result holds HTML and no earlier call raised.
JobApplied(r, i) ==
    /\ runs[r].results[i].html # <<>>
    /\ \A j \in 1..i :
          runs[r].results[j].html # <<>> =>
             /\ notes[runs[r].jobs[j].nid].exists
             /\ HasField(notes[runs[r].jobs[j].nid], runs[r].jobs[j].e_field)

Blank(text) == Strip(text) = <<>>

Finished(kind) ==
    {i \in DOMAIN runs : runs[i].kind = kind /\ runs[i].pc = "finished"}

RECURSIVE SumOkc(_)
SumOkc(i) == IF i = 0 THEN 0 ELSE runs[i].okc + SumOkc(i - 1)

RECURSIVE SumPosts(_)
SumPosts(results) ==
    IF results = <<>> THEN 0 ELSE Head(results).posts + SumPosts(Tail(results))

\* C1: a step of the add-on changes a note only in the completion callback of
\* a run, and there only the explanation field of the notes its jobs were
\* prepared from; the job of the reviewer flow is prepared from the note of
\* the card shown when the handler ran, the jobs of a batch from its target.
\* No note is created or deleted by the add-on.
C1_WritesOnlyJobField ==
    [][/\ runs' # runs =>
            \A n \in Nids :
               /\ notes'[n].exists = notes[n].exists
               /\ \A f \in FieldNames :
                     notes'[n].flds[f] # notes[n].flds[f] =>
                        \E r \in DOMAIN runs :
                           /\ OnDoneStep(r)
                           /\ f = ExplanationField
                           /\ \E i \in DOMAIN runs[r].jobs :
                                 /\ runs[r].jobs[i].nid = n
                                 /\ runs[r].jobs[i].e_field = f
       /\ StartStep =>
            LET new == runs'[Len(runs')]
            IN \A i \in DOMAIN new.jobs :
                  /\ new.jobs[i].e_field = ExplanationField
                  /\ new.kind = "reviewer" => new.jobs[i].nid = card
                  /\ new.kind = "batch" =>
                        \E k \in DOMAIN new.target :
                           new.target[k] = new.jobs[i].nid
      ]_vars

\* The reviewer flow wrote its note after the reviewer had moved on to
\* another card; no other run wrote anything.
C1_Witness ==
    \E r \in Finished("reviewer") :
       /\ runs[r].okc = 1
       /\ ~runs[r].redrawn
       /\ SumOkc(Len(runs)) = 1
       /\ edits = 0
       /\ Cardinality({n \in Nids :
                          notes[n].flds[ExplanationField] = <<"h">>}) = 1

\* C2 as stated: when the worker has returned, every job of the run has had
\* exactly one HTTP POST.
C2_ExactlyOnePost ==
    \A r \in DOMAIN runs :
       runs[r].pc = "on_done" =>
          /\ Len(runs[r].results) = Len(runs[r].jobs)
          /\ \A i \in DOMAIN runs[r].results : runs[r].results[i].posts = 1

\* C2 amended: when the worker has returned, every job of the run has had
\* exactly one HTTP POST if an API key is set, and none if no key is set.
C2_OnePostIfKey ==
    \A r \in DOMAIN runs :
       runs[r].pc = "on_done" =>
          /\ Len(runs[r].results) = Len(runs[r].jobs)
          /\ \A i \in DOMAIN runs[r].results :
                runs[r].results[i].posts = IF runs[r].cfg.api_key THEN 1 ELSE 0

\* The worker of a batch of several jobs has returned; a request failed
\* and another one was answered.
C2_Witness ==
    \E r \in DOMAIN runs :
       /\ runs[r].kind = "batch"
       /\ runs[r].pc = "on_done"
       /\ Len(runs[r].jobs) >= 2
       /\ runs[r].cfg.api_key
       /\ \E i, j \in DOMAIN runs[r].results :
             /\ runs[r].results[i].err = "API error"
             /\ runs[r].results[j].html # <<>>

\* C3 as stated: no exception leaves a handler or a completion callback.
C3_NoUncaughtException ==
    /\ uncaught = 0
    /\ \A r \in DOMAIN runs : ~runs[r].raised

\* C4: the completion callback of a run prepared with behaviour "skip"
\* changes no note whose explanation field is not blank at that moment; and
\* as long as nothing else edits notes or settings, every note is written at
\* most once, however the requests overlap.
C4_SkipNeverModifies ==
    /\ [][\A r \in DOMAIN runs :
             (OnDoneStep(r) /\ runs[r].cfg.behavior = "skip") =>
                \A n \in Nids :
                   (/\ notes[n].exists
                    /\ HasField(notes[n], ExplanationField)
                    /\ ~Blank(notes[n].flds[ExplanationField]))
                   => notes'[n] = notes[n]]_vars
    /\ [](cfg.behavior = "skip" /\ edits = 0 =>
            SumOkc(Len(runs)) =
               Cardinality({n \in Nids :
                               ~Blank(notes[n].flds[ExplanationField])}))

\* Two requests for the same note overlapped: both were prepared while the
\* field was blank, the batch wrote it and the reviewer's callback was refused.
C4_Witness ==
    /\ cfg.behavior = "skip"
    /\ edits = 0
    /\ \E r \in Finished("reviewer") : runs[r].sk = 1
    /\ \E b \in Finished("batch") : runs[b].okc >= 1

\* C5: a result applied with behaviour "append" to a field that is not blank
\* leaves the field equal to its content just before the callback, then the
\* job's separator (the built-in one if that is empty), then the HTML.
C5_AppendKeepsContent ==
    [][\A r \in DOMAIN runs :
          OnDoneStep(r) =>
             \A i \in DOMAIN runs[r].jobs :
                LET job == runs[r].jobs[i]
                    html == runs[r].results[i].html
                    before == notes[job.nid].flds[job.e_field]
                IN (/\ JobApplied(r, i)
                    /\ job.behavior = "append"
                    /\ ~Blank(before))
                   => notes'[job.nid].flds[job.e_field] =
                         before
                            \o (IF job.sep = <<>> THEN <<"HR">> ELSE job.sep)
                            \o html
      ]_vars

\* The HTML was appended to text with leading whitespace that was typed
\* into the field outside the add-on.
C5_Witness ==
    /\ cfg.behavior = "append"
    /\ edits = 1
    /\ SumOkc(Len(runs)) >= 1
    /\ \E n \in Nids :
          notes[n].flds[ExplanationField] \in
             {<<"ws", "x", "HR", "h">>, <<"ws", "x", "s", "h">>}

\* C6: a result applied with behaviour "overwrite", or to a field that is
\* blank, leaves the field equal to the HTML.
C6_OverwriteExact ==
    [][\A r \in DOMAIN runs :
          OnDoneStep(r) =>
             \A i \in DOMAIN runs[r].jobs :
                LET job == runs[r].jobs[i]
                    html == runs[r].results[i].html
                    before == notes[job.nid].flds[job.e_field]
                IN (/\ JobApplied(r, i)
                    /\ \/ job.behavior = "overwrite"
                       \/ Blank(before))
                   => notes'[job.nid].flds[job.e_field] = html
      ]_vars

\* With behaviour "overwrite" every note was written by the batch and one of
\* them by the reviewer flow as well, and each holds the HTML alone.
C6_Witness ==
    /\ cfg.behavior = "overwrite"
    /\ edits = 0
    /\ \E r \in Finished("reviewer") : runs[r].okc = 1
    /\ \E b \in Finished("batch") : runs[b].okc = NumNotes
    /\ \A n \in Nids : notes[n].flds[ExplanationField] = <<"h">>

\* C7: the target of a batch run is the first max_notes ids of the search
\* result, in its order (all of them if there are fewer); the run makes at
\* most max_notes HTTP POSTs and writes at most max_notes notes.
C7_AtMostMaxNotes ==
    \A r \in DOMAIN runs :
       runs[r].kind = "batch" =>
          /\ runs[r].pc # "finished" =>
                LET nids == runs[r].nids
                    target == runs[r].target
                    max_notes == runs[r].cfg.max_notes
                IN /\ Len(target) <= max_notes
                   /\ Len(target) <= Len(nids)
                   /\ Len(target) = max_notes \/ Len(target) = Len(nids)
                   /\ \A k \in DOMAIN target : target[k] = nids[k]
                   /\ Len(runs[r].jobs) + runs[r].pre_skipped = Len(target)
                   /\ SumPosts(runs[r].results) <= max_notes
          /\ runs[r].okc <= runs[r].cfg.max_notes

\* The search found more notes than max_notes; the worker has made its calls.
C7_Witness ==
    \E r \in DOMAIN runs :
       /\ runs[r].kind = "batch"
       /\ runs[r].pc = "on_done"
       /\ Len(runs[r].nids) > runs[r].cfg.max_notes
       /\ SumPosts(runs[r].results) = runs[r].cfg.max_notes
====
